---------------------------- MODULE Spec2Model ----------------------------
(***************************************************************************)
(* A model of the tower service of src/app.py: two tables (user, tower),   *)
(* the request handlers of the seven routes, and the haversine distance    *)
(* that decides whether a new tower may be placed.                         *)
(*                                                                         *)
(* Python floats are modelled by decimal floating-point numbers            *)
(* [m |-> mantissa, e |-> exponent] of value m * 10^e with an eight-digit  *)
(* mantissa (1e7 <= |m| < 1e8, or m = 0); every operation truncates.       *)
(* Coordinates are given in thousandths of a degree.                       *)
(***************************************************************************)
EXTENDS Integers, Sequences, FiniteSets, TLC

-----------------------------------------------------------------------------
(* Decimal floating point.                                                 *)

Abs(n) == IF n < 0 THEN -n ELSE n

Sgn(n) == IF n < 0 THEN -1 ELSE 1

\* |n| \div d with the sign of n kept (truncation toward zero).
TruncDiv(n, d) == Sgn(n) * (Abs(n) \div d)

Pow10(k) == <<1, 10, 100, 1000, 10000, 100000, 1000000, 10000000,
              100000000, 1000000000>>[k + 1]

FZero == [m |-> 0, e |-> 0]

RECURSIVE Norm(_, _)
Norm(m, e) ==
    IF m = 0 THEN FZero
    ELSE IF Abs(m) >= 100000000 THEN Norm(TruncDiv(m, 10), e + 1)
    ELSE IF Abs(m) < 10000000 THEN Norm(m * 10, e - 1)
    ELSE [m |-> m, e |-> e]

FromInt(n) == Norm(n, 0)

FNeg(a) == [m |-> -a.m, e |-> a.e]

\* a * b: the product of the two mantissas is formed from four-digit halves
\* so that no intermediate value leaves the 32-bit integers of TLC.
FMul(a, b) ==
    IF a.m = 0 \/ b.m = 0 THEN FZero
    ELSE LET a1 == Abs(a.m) \div 10000
             a0 == Abs(a.m) % 10000
             b1 == Abs(b.m) \div 10000
             b0 == Abs(b.m) % 10000
             hi == a1 * b1
             mid == a1 * b0 + a0 * b1
             lo == a0 * b0
             p == hi + ((mid + (lo \div 10000)) \div 10000)
         IN  Norm(Sgn(a.m) * Sgn(b.m) * p, a.e + b.e + 8)

FAdd(a, b) ==
    IF a.m = 0 THEN b
    ELSE IF b.m = 0 THEN a
    ELSE LET big == IF a.e >= b.e THEN a ELSE b
             small == IF a.e >= b.e THEN b ELSE a
             d == big.e - small.e
         IN  IF d > 8 THEN big
             ELSE Norm(big.m + TruncDiv(small.m, Pow10(d)), big.e)

FSub(a, b) == FAdd(a, FNeg(b))

\* Long division of the mantissas, one decimal digit per step.
RECURSIVE DivDigits(_, _, _, _)
DivDigits(q, r, b, k) ==
    IF k = 0 THEN q
    ELSE DivDigits(q * 10 + ((r * 10) \div b), (r * 10) % b, b, k - 1)

FDiv(a, b) ==
    IF a.m = 0 THEN FZero
    ELSE LET am == Abs(a.m)
             bm == Abs(b.m)
             q == DivDigits(am \div bm, am % bm, bm, 8)
         IN  Norm(Sgn(a.m) * Sgn(b.m) * q, a.e - b.e - 8)

FLess(a, b) == FSub(a, b).m < 0

FLeq(a, b) == FSub(b, a).m >= 0

\* A term that no longer changes an eight-digit sum.
Negligible(term, sum) == term.m = 0 \/ (sum.m # 0 /\ term.e < sum.e - 9)

MaxTerms == 16

FOne == FromInt(1)

FTwo == FromInt(2)

FHalf == Norm(5, -1)

FPi == Norm(314159265, -8)


-----------------------------------------------------------------------------
(* The functions of Python's math module that haversine uses.              *)

\* math.radians: degrees * (pi / 180).
radians(x) == FMul(x, FDiv(FPi, FromInt(180)))

\* Sum of the Taylor series whose term k+1 is -term_k * x2 / ((n+1)(n+2)),
\* n = 2k + first: first = 1 gives sin (term_0 = x), first = 0 gives cos.
RECURSIVE TrigSeries(_, _, _, _, _)
TrigSeries(sum, term, x2, n, k) ==
    IF k >= MaxTerms \/ Negligible(term, sum) THEN sum
    ELSE LET next == FNeg(FDiv(FMul(term, x2), FromInt((n + 1) * (n + 2))))
         IN  TrigSeries(FAdd(sum, term), next, x2, n + 2, k + 1)

sin(x) == TrigSeries(FZero, x, FMul(x, x), 1, 0)

cos(x) == TrigSeries(FZero, FOne, FMul(x, x), 0, 0)

\* Integer square root by Newton's iteration, from a guess g >= sqrt(n).
RECURSIVE IsqrtIter(_, _)
IsqrtIter(n, g) ==
    LET g2 == (g + (n \div g)) \div 2
    IN  IF g2 >= g THEN g ELSE IsqrtIter(n, g2)

\* One more decimal digit of a square root: root r, remainder rem.
SqrtDigit(r, rem) ==
    CHOOSE d \in 0..9 :
        /\ (20 * r + d) * d <= rem * 100
        /\ d = 9 \/ (20 * r + d + 1) * (d + 1) > rem * 100

RECURSIVE SqrtExtend(_, _, _)
SqrtExtend(r, rem, k) ==
    IF k = 0 THEN r
    ELSE LET d == SqrtDigit(r, rem)
         IN  SqrtExtend(10 * r + d, rem * 100 - (20 * r + d) * d, k - 1)

\* math.sqrt of x >= 0.
sqrt(x) ==
    IF x.m = 0 THEN FZero
    ELSE LET odd == x.e % 2 # 0
             m == IF odd THEN x.m * 10 ELSE x.m
             e == IF odd THEN x.e - 1 ELSE x.e
             r0 == IsqrtIter(m, 31623)
         IN  Norm(SqrtExtend(r0, m - r0 * r0, 3), (e \div 2) - 3)

\* asin(s) = sum of c_k s^(2k+1), c_(k+1)/c_k = (2k+1)^2 / ((2k+2)(2k+3)).
RECURSIVE AsinSeries(_, _, _, _)
AsinSeries(sum, term, s2, k) ==
    IF k >= MaxTerms \/ Negligible(term, sum) THEN sum
    ELSE LET num == FMul(FMul(term, s2), FromInt((2 * k + 1) * (2 * k + 1)))
             next == FDiv(num, FromInt((2 * k + 2) * (2 * k + 3)))
         IN  AsinSeries(FAdd(sum, term), next, s2, k + 1)

\* math.asin raises ValueError ("math domain error") outside [-1, 1].
asinDefined(s) == FLeq(s, FOne) /\ FLeq(FNeg(FOne), s)

AsinSmall(s) == AsinSeries(FZero, s, FMul(s, s), 0)

\* math.asin of 0 <= s <= 1; above 1/2 by asin(s) = pi/2 - 2 asin(sqrt((1-s)/2)).
asin(s) ==
    IF FLeq(s, FHalf) THEN AsinSmall(s)
    ELSE FSub(FMul(FPi, FHalf),
              FMul(FTwo, AsinSmall(sqrt(FMul(FSub(FOne, s), FHalf)))))

-----------------------------------------------------------------------------
(* haversine, src/app.py lines 15-25.  Arguments are floats in degrees.    *)

\* r = 6371: radius of the earth in kilometers.
EarthRadius == 6371

\* x**2
Square(x) == FMul(x, x)

\* Lines 17-22: a, the value whose square root is taken.
haversineA(lat1, lon1, lat2, lon2) ==
    LET rlat1 == radians(lat1)
        rlon1 == radians(lon1)
        rlat2 == radians(lat2)
        rlon2 == radians(lon2)
        dlon == FSub(rlon2, rlon1)
        dlat == FSub(rlat2, rlat1)
    IN  FAdd(Square(sin(FDiv(dlat, FTwo))),
             FMul(FMul(cos(rlat1), cos(rlat2)), Square(sin(FDiv(dlon, FTwo)))))

\* Lines 23-25 for the square root s of a: math.asin raises ValueError, or
\* the distance c * r in km is returned.
haversineC(s) ==
    IF ~asinDefined(s) THEN [raises |-> TRUE, km |-> FZero]
    ELSE [raises |-> FALSE,
          km |-> FMul(FMul(FTwo, asin(s)), FromInt(EarthRadius))]

\* The outcome of the call haversine(lat1, lon1, lat2, lon2).
haversine(lat1, lon1, lat2, lon2) ==
    haversineC(sqrt(haversineA(lat1, lon1, lat2, lon2)))

\* A coordinate given in thousandths of a degree, as a float in degrees.
Deg(n) == Norm(n, -3)

-----------------------------------------------------------------------------
(* JSON values of a request body.  A key that the body does not carry is   *)
(* Absent; n is a number (a coordinate in thousandths of a degree, or an   *)
(* integer id), s a string.                                                *)

Absent == [t |-> "absent", n |-> 0, s |-> ""]

Null == [t |-> "null", n |-> 0, s |-> ""]

Num(k) == [t |-> "num", n |-> k, s |-> ""]

Str(x) == [t |-> "str", n |-> 0, s |-> x]

\* 'key' in data
Has(v) == v.t # "absent"

\* float(v) at lines 85-86 raises TypeError for None and ValueError for a
\* string that is no number literal (the only strings the inputs hold).
floatRaises(v) == v.t # "num"

float(v) == Deg(v.n)

Data(lat, lon, uid, fn, ln, em) ==
    [latitude |-> lat, longitude |-> lon, user_id |-> uid,
     first_name |-> fn, last_name |-> ln, email |-> em]

TowerData(lat, lon, uid) == Data(lat, lon, uid, Absent, Absent, Absent)

UserData(fn, ln, em) == Data(Absent, Absent, Absent, fn, ln, em)

NoData == Data(Absent, Absent, Absent, Absent, Absent, Absent)

-----------------------------------------------------------------------------
(* Bounds and the inputs the requests are drawn from.                      *)

MaxUsers == 2

MaxTowers == 2

\* Latitudes 10.000, 10.005 (0.56 km further north), 10.010 (1.11 km) and
\* 91 degrees; a string that is no number; null; no latitude.
LatInputs == {Absent, Null, Str("abc"), Num(10000), Num(10005), Num(10010),
              Num(91000)}

\* Longitudes -180 and 180 degrees (both ends of the range, and the same
\* meridian) and 181 degrees; no longitude.
LonInputs == {Absent, Num(-180000), Num(180000), Num(181000)}

\* The ids a request may name: those the users can get, and one nobody has.
IdInputs == (1..MaxUsers) \cup {999}

UserIdInputs == {Absent} \cup {Num(i) : i \in IdInputs}

\* The bodies of POST /users: two that differ in the case of the email
\* only, one of empty strings, one with a null, and one per missing key.
UserRequests ==
    {UserData(Str("A"), Str("B"), Str("a@b.com")),
     UserData(Str("A"), Str("B"), Str("A@b.com")),
     UserData(Str(""), Str(""), Str("")),
     UserData(Null, Str("B"), Str("a@b.com")),
     UserData(Str("C"), Str("D"), Null),
     UserData(Absent, Str("B"), Str("a@b.com")),
     UserData(Str("A"), Absent, Str("a@b.com")),
     UserData(Str("A"), Str("B"), Absent),
     NoData}

-----------------------------------------------------------------------------
(* State.                                                                  *)

VARIABLES
    users,      \* the user table: rows [id, first_name, last_name, email]
    towers,     \* the tower table: rows [id, latitude, longitude, user_id]
    req,        \* the request being answered: [op, id, data]
    resp,       \* its response: [status, body], until it is sent
    userLog,    \* the bodies of the 201 responses of POST /users, in order
    towerLog,   \* the bodies of the 201 responses of POST /towers, in order
    pending     \* per worker: the tower a POST /towers is about to insert

vars == <<users, towers, req, resp, userLog, towerLog, pending>>

Range(f) == {f[i] : i \in DOMAIN f}

\* Model.query.get(id): the row with that primary key, if any.
HasRow(rows, id) == \E i \in DOMAIN rows : rows[i].id = id

Row(rows, id) == rows[CHOOSE i \in DOMAIN rows : rows[i].id = id]

\* Mutant of NextId: keys counted from zero.
NextIdFromZero(rows) == Len(rows)

\* The primary key SQLite gives an inserted row: one more than the largest
\* rowid of the table, 1 for an empty table; rows are never deleted.
NextId(rows) ==
    IF rows = <<>> THEN 1
    ELSE 1 + CHOOSE k \in Range([i \in DOMAIN rows |-> rows[i].id]) :
                 \A j \in DOMAIN rows : rows[j].id <= k

Response(status, body) == [status |-> status, body |-> body]

Error(msg) == [error |-> msg]

\* Mutant of UserToDict: the two names in each other's place.
UserToDictNamesSwapped(u) ==
    [id |-> u.id, first_name |-> u.last_name, last_name |-> u.first_name,
     email |-> u.email]

\* User.to_dict
UserToDict(u) ==
    [id |-> u.id, first_name |-> u.first_name, last_name |-> u.last_name,
     email |-> u.email]

\* Tower.to_dict; self.user is None when no user row has the id user_id,
\* and then self.user.to_dict() raises AttributeError.
TowerToDictRaises(t, U) == ~HasRow(U, t.user_id)

TowerToDict(t, U) ==
    [id |-> t.id, latitude |-> t.latitude, longitude |-> t.longitude,
     user_id |-> t.user_id, user |-> UserToDict(Row(U, t.user_id))]

\* An exception no handler catches: Flask answers 500.
InternalServerError == Response(500, Error("Internal Server Error"))

\* jsonify([tower.to_dict() for tower in rows]), 200
TowerList(rows, U) ==
    IF \E i \in DOMAIN rows : TowerToDictRaises(rows[i], U)
    THEN InternalServerError
    ELSE Response(200, [i \in DOMAIN rows |-> TowerToDict(rows[i], U)])

-----------------------------------------------------------------------------
(* The handlers, as functions of the request and the tables.  A handler    *)
(* result is [resp |-> the response, rows |-> the table it writes, after]. *)

Result(response, rows) == [resp |-> response, rows |-> rows]

\* GET /towers
get_towers(U, T) == TowerList(T, U)

\* GET /towers/<int:tower_id>
get_tower(tower_id, U, T) ==
    IF HasRow(T, tower_id)
    THEN IF TowerToDictRaises(Row(T, tower_id), U) THEN InternalServerError
         ELSE Response(200, TowerToDict(Row(T, tower_id), U))
    ELSE Response(404, Error("Tower not found"))

\* GET /users
get_users(U) == Response(200, [i \in DOMAIN U |-> UserToDict(U[i])])

\* GET /users/<int:user_id>
get_user(user_id, U) ==
    IF HasRow(U, user_id) THEN Response(200, UserToDict(Row(U, user_id)))
    ELSE Response(404, Error("User not found"))

\* Mutant of TowersOf: the filter is on the tower's own id.
TowersOfWrongColumn(user_id, T) == SelectSeq(T, LAMBDA t : t.id = user_id)

\* Tower.query.filter_by(user_id=user_id).all()
TowersOf(user_id, T) == SelectSeq(T, LAMBDA t : t.user_id = user_id)

\* GET /users/<int:user_id>/towers
get_towers_by_user_id(user_id, U, T) == TowerList(TowersOf(user_id, T), U)

\* Mutant of EmailExists: the filter is on last_name.
EmailExistsWrongColumn(em, U) ==
    em.t = "str" /\ \E i \in DOMAIN U : U[i].last_name = em.s

\* User.query.filter_by(email=data['email']).first(): exact comparison of
\* the stored strings; a null email matches no row.
EmailExists(em, U) ==
    em.t = "str" /\ \E i \in DOMAIN U : U[i].email = em.s

\* nullable=False on first_name, last_name, email: the INSERT of a NULL
\* fails with IntegrityError at commit.
UserInsertRaises(data) ==
    data.first_name.t = "null" \/ data.last_name.t = "null"
        \/ data.email.t = "null"

\* POST /users
create_user(data, U) ==
    IF ~Has(data.first_name) \/ ~Has(data.last_name) \/ ~Has(data.email)
    THEN Result(Response(400, Error("Missing first_name, last_name, or email")), U)
    ELSE IF EmailExists(data.email, U)
    THEN Result(Response(400, Error("Email already exists")), U)
    ELSE IF UserInsertRaises(data)
    THEN Result(InternalServerError, U)
    ELSE LET new_user == [id |-> NextId(U),
                          first_name |-> data.first_name.s,
                          last_name |-> data.last_name.s,
                          email |-> data.email.s]
         IN  Result(Response(201, UserToDict(new_user)), Append(U, new_user))

\* not (-90 <= lat <= 90) or not (-180 <= lon <= 180)
InvalidGps(lat, lon) ==
    \/ ~(FLeq(FromInt(-90), lat) /\ FLeq(lat, FromInt(90)))
    \/ ~(FLeq(FromInt(-180), lon) /\ FLeq(lon, FromInt(180)))

\* Mutant of UserFound: any number passes for the id of a user.
UserFoundAnyNumber(uid, U) == uid.t = "num"

\* User.query.get(data['user_id']) finds a row.
UserFound(uid, U) == uid.t = "num" /\ HasRow(U, uid.n)

\* The points the inputs give that pass the checks of lines 85-88.
Points ==
    {<<float(lat), float(lon)>> :
        lat \in {x \in LatInputs : ~floatRaises(x)},
        lon \in {x \in LonInputs : ~floatRaises(x)}}

ValidPoints == {p \in Points : ~InvalidGps(p[1], p[2])}

\* haversine, evaluated once for each two valid points of the inputs.
haversineCalls ==
    [a \in {<<p[1], p[2], q[1], q[2]>> : p, q \in ValidPoints} |->
        haversine(a[1], a[2], a[3], a[4])]

\* Mutant of CheckTower: the threshold is half a kilometer.
CheckTowerHalfKm(h) ==
    IF h.raises THEN "raise"
    ELSE IF FLess(h.km, FHalf) THEN "conflict"
    ELSE "next"

\* Line 99 for one tower, h being haversine(tower.latitude,
\* tower.longitude, lat, lon): "raise", "conflict" (h < 1.0) or "next".
CheckTower(h) ==
    IF h.raises THEN "raise"
    ELSE IF FLess(h.km, FOne) THEN "conflict"
    ELSE "next"

\* The loop of lines 98-100 from row i on: "conflict" at the first tower
\* within 1 km, "raise" if haversine raises before that, else "clear".
RECURSIVE ScanTowers(_, _, _, _)
ScanTowers(T, lat, lon, i) ==
    IF i > Len(T) THEN "clear"
    ELSE LET found == CheckTower(
                 haversineCalls[<<T[i].latitude, T[i].longitude, lat, lon>>])
         IN  IF found = "next" THEN ScanTowers(T, lat, lon, i + 1) ELSE found

Accepted == Response(0, Error(""))

\* Mutant of create_tower_check: the towers are scanned before the user is
\* looked up.
create_tower_check_scan_first(data, U, T) ==
    IF ~Has(data.latitude) \/ ~Has(data.longitude) \/ ~Has(data.user_id)
    THEN Response(400, Error("Missing latitude, longitude, or user_id"))
    ELSE IF floatRaises(data.latitude) \/ floatRaises(data.longitude)
    THEN Response(400, Error("Latitude and longitude must be numbers"))
    ELSE IF InvalidGps(float(data.latitude), float(data.longitude))
    THEN Response(400, Error("Invalid GPS coordinates"))
    ELSE IF ScanTowers(T, float(data.latitude), float(data.longitude), 1)
            = "conflict"
    THEN Response(400, Error("Tower already exists within 1km"))
    ELSE IF ~UserFound(data.user_id, U)
    THEN Response(404, Error("User not found"))
    ELSE Accepted

\* Mutant of create_tower_check: the loop over the towers is left out.
create_tower_check_no_scan(data, U, T) ==
    IF ~Has(data.latitude) \/ ~Has(data.longitude) \/ ~Has(data.user_id)
    THEN Response(400, Error("Missing latitude, longitude, or user_id"))
    ELSE IF floatRaises(data.latitude) \/ floatRaises(data.longitude)
    THEN Response(400, Error("Latitude and longitude must be numbers"))
    ELSE IF InvalidGps(float(data.latitude), float(data.longitude))
    THEN Response(400, Error("Invalid GPS coordinates"))
    ELSE IF ~UserFound(data.user_id, U)
    THEN Response(404, Error("User not found"))
    ELSE Accepted

\* POST /towers up to the end of the loop (lines 80-100): the response that
\* rejects the request, or Accepted.
create_tower_check(data, U, T) ==
    IF ~Has(data.latitude) \/ ~Has(data.longitude) \/ ~Has(data.user_id)
    THEN Response(400, Error("Missing latitude, longitude, or user_id"))
    ELSE IF floatRaises(data.latitude) \/ floatRaises(data.longitude)
    THEN Response(400, Error("Latitude and longitude must be numbers"))
    ELSE IF InvalidGps(float(data.latitude), float(data.longitude))
    THEN Response(400, Error("Invalid GPS coordinates"))
    ELSE IF ~UserFound(data.user_id, U)
    THEN Response(404, Error("User not found"))
    ELSE LET scan == ScanTowers(T, float(data.latitude),
                                float(data.longitude), 1)
         IN  IF scan = "conflict"
             THEN Response(400, Error("Tower already exists within 1km"))
             ELSE IF scan = "raise" THEN InternalServerError
             ELSE Accepted

\* Mutant of create_tower_insert: latitude and longitude in each other's
\* column.
create_tower_insert_swapped(lat, lon, user_id, U, T) ==
    LET new_tower == [id |-> NextId(T), latitude |-> lon, longitude |-> lat,
                      user_id |-> user_id]
    IN  Result(IF TowerToDictRaises(new_tower, U) THEN InternalServerError
               ELSE Response(201, TowerToDict(new_tower, U)),
               Append(T, new_tower))

\* POST /towers from line 102 on: the insert, the commit and the response.
create_tower_insert(lat, lon, user_id, U, T) ==
    LET new_tower == [id |-> NextId(T), latitude |-> lat, longitude |-> lon,
                      user_id |-> user_id]
    IN  Result(IF TowerToDictRaises(new_tower, U) THEN InternalServerError
               ELSE Response(201, TowerToDict(new_tower, U)),
               Append(T, new_tower))

\* POST /towers
create_tower(data, U, T) ==
    LET checked == create_tower_check(data, U, T)
    IN  IF checked # Accepted THEN Result(checked, T)
        ELSE create_tower_insert(float(data.latitude), float(data.longitude),
                                 data.user_id.n, U, T)

-----------------------------------------------------------------------------
(* Requests processed one at a time: each action is one whole request.     *)

Request(op, id, data) == [op |-> op, id |-> id, data |-> data]

NumWorkers == 2

Workers == 1..NumWorkers

NoRequest == Request("none", 0, NoData)

NoResponse == Response(0, Error(""))

\* No request is being answered.
Ready == req = NoRequest

\* A worker between requests; a busy one holds the body of its POST /towers
\* and the rows that Tower.query.all() gave it.
Idle == [busy |-> FALSE, data |-> NoData, snapshot |-> <<>>]

\* db.create_all() on an empty database: both tables exist and are empty.
Init ==
    /\ users = <<>>
    /\ towers = <<>>
    /\ req = NoRequest
    /\ resp = NoResponse
    /\ userLog = <<>>
    /\ towerLog = <<>>
    /\ pending = [w \in Workers |-> Idle]

GetTowers ==
    /\ Ready
    /\ req' = Request("GET /towers", 0, NoData)
    /\ resp' = get_towers(users, towers)
    /\ UNCHANGED <<users, towers, userLog, towerLog, pending>>

GetTower(id) ==
    /\ Ready
    /\ req' = Request("GET /towers/id", id, NoData)
    /\ resp' = get_tower(id, users, towers)
    /\ UNCHANGED <<users, towers, userLog, towerLog, pending>>

\* The successful creations, as their clients saw them.
Logged(log, response) ==
    IF response.status = 201 THEN Append(log, response.body) ELSE log

\* POST /towers with result r: the table is written, the response is r.resp.
TowerCreation(data, r) ==
    /\ Len(r.rows) <= MaxTowers
    /\ req' = Request("POST /towers", 0, data)
    /\ resp' = r.resp
    /\ towers' = r.rows
    /\ towerLog' = Logged(towerLog, r.resp)

CreateTower(data) ==
    /\ Ready
    /\ TowerCreation(data, create_tower(data, users, towers))
    /\ UNCHANGED <<users, userLog, pending>>

UserCreation(data, r) ==
    /\ Len(r.rows) <= MaxUsers
    /\ req' = Request("POST /users", 0, data)
    /\ resp' = r.resp
    /\ users' = r.rows
    /\ userLog' = Logged(userLog, r.resp)

CreateUser(data) ==
    /\ Ready
    /\ UserCreation(data, create_user(data, users))
    /\ UNCHANGED <<towers, towerLog, pending>>

GetUsers ==
    /\ Ready
    /\ req' = Request("GET /users", 0, NoData)
    /\ resp' = get_users(users)
    /\ UNCHANGED <<users, towers, userLog, towerLog, pending>>

GetUser(id) ==
    /\ Ready
    /\ req' = Request("GET /users/id", id, NoData)
    /\ resp' = get_user(id, users)
    /\ UNCHANGED <<users, towers, userLog, towerLog, pending>>

GetTowersByUserId(id) ==
    /\ Ready
    /\ req' = Request("GET /users/id/towers", id, NoData)
    /\ resp' = get_towers_by_user_id(id, users, towers)
    /\ UNCHANGED <<users, towers, userLog, towerLog, pending>>

TowerRequests ==
    {TowerData(lat, lon, uid) :
        lat \in LatInputs, lon \in LonInputs, uid \in UserIdInputs}

\* The response is sent and the request context is torn down.
Reply ==
    /\ ~Ready
    /\ req' = NoRequest
    /\ resp' = NoResponse
    /\ UNCHANGED <<users, towers, userLog, towerLog, pending>>

Next ==
    \/ Reply
    \/ GetTowers
    \/ \E id \in IdInputs : GetTower(id)
    \/ \E data \in TowerRequests : CreateTower(data)
    \/ \E data \in UserRequests : CreateUser(data)
    \/ GetUsers
    \/ \E id \in IdInputs : GetUser(id)
    \/ \E id \in IdInputs : GetTowersByUserId(id)

Spec == Init /\ [][Next]_vars

-----------------------------------------------------------------------------
(* Concurrent POST /towers: the threaded server runs each request in its   *)
(* own worker; the check (lines 80-100) reads the tables, the insert       *)
(* (lines 102-105) writes later, and other requests run in between.        *)

Busy == {w \in Workers : pending[w].busy}

\* The check with outcome checked: the request is rejected and answered, or
\* the worker goes on to the insert.
TowerCheck(w, data, checked) ==
    IF checked # Accepted
    THEN /\ req' = Request("POST /towers", 0, data)
         /\ resp' = checked
         /\ UNCHANGED pending
    ELSE /\ pending' = [pending EXCEPT ![w] =
                          [busy |-> TRUE, data |-> data, snapshot |-> towers]]
         /\ UNCHANGED <<req, resp>>

BeginCreateTower(w, data) ==
    /\ Ready
    /\ ~pending[w].busy
    /\ Len(towers) + Cardinality(Busy) < MaxTowers
    /\ TowerCheck(w, data, create_tower_check(data, users, towers))
    /\ UNCHANGED <<users, towers, userLog, towerLog>>

CommitCreateTower(w) ==
    /\ Ready
    /\ pending[w].busy
    /\ TowerCreation(pending[w].data,
                     create_tower_insert(float(pending[w].data.latitude),
                                         float(pending[w].data.longitude),
                                         pending[w].data.user_id.n,
                                         users, towers))
    /\ pending' = [pending EXCEPT ![w] = Idle]
    /\ UNCHANGED <<users, userLog>>

\* Two users; towers at one of two places 0.56 km apart, or at latitude 91.
ConcUserRequests ==
    {UserData(Str("A"), Str("B"), Str("a@b.com")),
     UserData(Str("A"), Str("B"), Str("A@b.com"))}

ConcTowerRequests ==
    {TowerData(lat, Num(180000), uid) :
        lat \in {Num(10000), Num(10005), Num(91000)},
        uid \in {Num(1), Num(999)}}

NextConc ==
    \/ Reply
    \/ \E data \in ConcUserRequests : CreateUser(data)
    \/ \E w \in Workers : \E data \in ConcTowerRequests :
           BeginCreateTower(w, data)
    \/ \E w \in Workers : CommitCreateTower(w)

SpecConc == Init /\ [][NextConc]_vars

-----------------------------------------------------------------------------
(* What the claims speak of, stated without the handlers.                  *)

\* The distance in km between two stored towers, or a tower and a point.
Km(lat1, lon1, lat2, lon2) == haversineCalls[<<lat1, lon1, lat2, lon2>>].km

TowersKm(t1, t2) ==
    Km(t1.latitude, t1.longitude, t2.latitude, t2.longitude)

\* A number within [lo, hi] thousandths of a degree.
NumberIn(v, lo, hi) == v.t = "num" /\ lo <= v.n /\ v.n <= hi

ValidCoordinates(data) ==
    /\ NumberIn(data.latitude, -90000, 90000)
    /\ NumberIn(data.longitude, -180000, 180000)

ReferencesUser(data, U) ==
    data.user_id.t = "num" /\ \E i \in DOMAIN U : U[i].id = data.user_id.n

\* Some stored tower is less than 1.0 km from the point of the request.
WithinOneKm(data, T) ==
    \E i \in DOMAIN T :
        FLess(Km(T[i].latitude, T[i].longitude,
                 Deg(data.latitude.n), Deg(data.longitude.n)), FOne)

\* Every stored tower is more than 1.0 km from the point of the request.
BeyondOneKm(data, T) ==
    \A i \in DOMAIN T :
        FLess(FOne, Km(T[i].latitude, T[i].longitude,
                       Deg(data.latitude.n), Deg(data.longitude.n)))

\* This step answers a request of kind op.
Answers(op) == Ready /\ req'.op = op

\* table2 is table1 and one more row.
OneRowAdded(table1, table2) ==
    /\ Len(table2) = Len(table1) + 1
    /\ SubSeq(table2, 1, Len(table1)) = table1

Last(table) == table[Len(table)]

-----------------------------------------------------------------------------
\* C1: with requests processed one at a time, no two distinct stored towers
\* are less than 1.0 km apart (great-circle distance, either way round).
C1_TowersApart ==
    \A i, j \in DOMAIN towers :
        i # j => ~FLess(TowersKm(towers[i], towers[j]), FOne)

\* Two towers are stored and a third request, too close to one of them, has
\* just been rejected; its longitude is that of neither tower (-180 against
\* 180 degrees: the distance is taken across the antimeridian).
C1_Witness ==
    /\ Len(towers) = 2
    /\ req.op = "POST /towers"
    /\ resp.status = 400
    /\ resp.body = Error("Tower already exists within 1km")
    /\ \A i \in DOMAIN towers :
          towers[i].longitude # Deg(req.data.longitude.n)

\* Every tower created is what GET /towers/{id} returns, with 200.
C2_Retrievable(U, T, log) ==
    \A k \in DOMAIN log :
        /\ get_tower(log[k].id, U, T).status = 200
        /\ get_tower(log[k].id, U, T).body = log[k]

C2_Created(data) ==
    /\ resp'.status = 201
    /\ OneRowAdded(towers, towers')
    /\ Last(towers').latitude = Deg(data.latitude.n)
    /\ Last(towers').longitude = Deg(data.longitude.n)
    /\ Last(towers').user_id = data.user_id.n
    /\ resp'.body.id = Last(towers').id
    /\ resp'.body.latitude = Deg(data.latitude.n)
    /\ resp'.body.longitude = Deg(data.longitude.n)
    /\ resp'.body.user_id = data.user_id.n

C2_Step ==
    /\ (/\ Answers("POST /towers")
        /\ ValidCoordinates(req'.data)
        /\ ReferencesUser(req'.data, users)
        /\ BeyondOneKm(req'.data, towers)) => C2_Created(req'.data)
    /\ (Answers("GET /towers/id")
          /\ \E k \in DOMAIN towerLog : towerLog[k].id = req'.id)
       => /\ resp'.status = 200
          /\ \E k \in DOMAIN towerLog : resp'.body = towerLog[k]
    /\ C2_Retrievable(users', towers', towerLog')

\* C2: a POST /towers with coordinates in range, an existing user and a point
\* more than 1 km from every stored tower returns 201 and adds exactly one
\* tower with those coordinates and that user_id; every tower so created is
\* returned unchanged, with 200, by GET /towers/{id} from then on.
C2_CreateThenGet == [][C2_Step]_vars

\* GET /towers/{id} has just returned the second tower created.
C2_Witness ==
    /\ Len(towerLog) = 2
    /\ req.op = "GET /towers/id"
    /\ resp.status = 200
    /\ resp.body = towerLog[2]

C3_UniqueEmails(U) ==
    \A i, j \in DOMAIN U : U[i].email = U[j].email => i = j

C3_Step ==
    /\ (/\ Answers("POST /users")
        /\ req'.data.email.t = "str"
        /\ \E i \in DOMAIN users : users[i].email = req'.data.email.s)
       => (resp'.status = 400 /\ users' = users)
    /\ C3_UniqueEmails(users')

\* C3: a POST /users whose email is, character for character, the email of a
\* stored user is rejected with 400 and adds no user; no two stored users
\* have the same email.
C3_DuplicateEmailRejected == [][C3_Step]_vars

\* Two users whose emails differ in case only are stored, and a request
\* repeating one of the emails has just been rejected.
C3_Witness ==
    /\ Len(users) = 2
    /\ req.op = "POST /users"
    /\ resp.status = 400
    /\ resp.body = Error("Email already exists")

\* Every user created is what GET /users/{id} returns, with 200.
C4_Retrievable(U, log) ==
    \A k \in DOMAIN log :
        /\ get_user(log[k].id, U).status = 200
        /\ get_user(log[k].id, U).body = log[k]

C4_NewEmail(data, U) ==
    ~(data.email.t = "str" /\ \E i \in DOMAIN U : U[i].email = data.email.s)

C4_Created(data) ==
    /\ resp'.status = 201
    /\ OneRowAdded(users, users')
    /\ data.first_name.t = "str"
    /\ data.last_name.t = "str"
    /\ data.email.t = "str"
    /\ Last(users').first_name = data.first_name.s
    /\ Last(users').last_name = data.last_name.s
    /\ Last(users').email = data.email.s
    /\ resp'.body = [id |-> Last(users').id,
                     first_name |-> data.first_name.s,
                     last_name |-> data.last_name.s,
                     email |-> data.email.s]

C4_StepAsClaimed ==
    /\ (/\ Answers("POST /users")
        /\ Has(req'.data.first_name)
        /\ Has(req'.data.last_name)
        /\ Has(req'.data.email)
        /\ C4_NewEmail(req'.data, users)) => C4_Created(req'.data)
    /\ C4_Retrievable(users', userLog')

C4_StepAmended ==
    /\ (/\ Answers("POST /users")
        /\ req'.data.first_name.t = "str"
        /\ req'.data.last_name.t = "str"
        /\ req'.data.email.t = "str"
        /\ C4_NewEmail(req'.data, users)) => C4_Created(req'.data)
    /\ (Answers("GET /users/id")
          /\ \E k \in DOMAIN userLog : userLog[k].id = req'.id)
       => /\ resp'.status = 200
          /\ \E k \in DOMAIN userLog : resp'.body = userLog[k]
    /\ C4_Retrievable(users', userLog')

C5_Owned(id) == {i \in DOMAIN towers : towers[i].user_id = id}

C5_ExactlyOwned(id, response) ==
    /\ response.status = 200
    /\ Len(response.body) = Cardinality(C5_Owned(id))
    /\ \A i \in C5_Owned(id) :
          \E k \in DOMAIN response.body :
              /\ response.body[k].id = towers[i].id
              /\ response.body[k].latitude = towers[i].latitude
              /\ response.body[k].longitude = towers[i].longitude
              /\ response.body[k].user_id = id

\* C5: for every id, GET /users/{id}/towers returns 200 with exactly the
\* stored towers whose user_id is id: none for a user without towers and
\* for an id that no user has.
C5_TowersOfUser ==
    /\ \A id \in 0..(MaxUsers + 1) \cup {999} :
          C5_ExactlyOwned(id, get_towers_by_user_id(id, users, towers))
    /\ req.op = "GET /users/id/towers" => C5_ExactlyOwned(req.id, resp)

\* Two towers of two owners are stored and the request has just returned
\* the one tower of its user.
C5_Witness ==
    /\ Len(towers) = 2
    /\ towers[1].user_id # towers[2].user_id
    /\ req.op = "GET /users/id/towers"
    /\ resp.status = 200
    /\ Len(resp.body) = 1

C6_IdsInOrder ==
    /\ \A k \in DOMAIN userLog : userLog[k].id = k
    /\ \A k \in DOMAIN towerLog : towerLog[k].id = k
    /\ Len(users) = Len(userLog)
    /\ Len(towers) = Len(towerLog)

C6_RejectionUsesNoId ==
    (Answers("POST /users") \/ Answers("POST /towers")) /\ resp'.status # 201
        => users' = users /\ towers' = towers

\* C6: the n-th successful creation of a user returns id n, and so does the
\* n-th successful creation of a tower, however many requests were rejected
\* in between: ids grow strictly, none is used twice, a rejection uses none.
C6_Identifiers == [][C6_RejectionUsesNoId /\ C6_IdsInOrder']_vars

\* Two users exist and the second tower created has just got id 2.
C6_Witness ==
    /\ Len(userLog) = 2
    /\ Len(towerLog) = 2
    /\ req.op = "POST /towers"
    /\ resp.status = 201
    /\ resp.body.id = 2

\* C7: every stored user has a non-empty first_name, last_name and email.
C7_NonEmptyNames ==
    \A i \in DOMAIN users :
        /\ users[i].first_name # ""
        /\ users[i].last_name # ""
        /\ users[i].email # ""

C8_Rejected(status) == resp'.status = status /\ towers' = towers

C8_Step ==
    Answers("POST /towers") =>
        /\ ~(/\ Has(req'.data.user_id)
             /\ ValidCoordinates(req'.data)) => C8_Rejected(400)
        /\ (/\ Has(req'.data.user_id)
            /\ ValidCoordinates(req'.data)
            /\ ~ReferencesUser(req'.data, users)) => C8_Rejected(404)
        /\ (/\ ValidCoordinates(req'.data)
            /\ ReferencesUser(req'.data, users)
            /\ WithinOneKm(req'.data, towers)) => C8_Rejected(400)

\* C8: POST /towers reports the first check that fails, in the order
\* (1) missing, non-numeric or out-of-range fields: 400; (2) no user with
\* that user_id: 404; (3) a tower within 1 km: 400; and adds no tower.
C8_CheckOrder == [][C8_Step]_vars

\* A request for the place of a stored tower, by a user that does not
\* exist, has just been answered 404.
C8_Witness ==
    /\ req.op = "POST /towers"
    /\ ValidCoordinates(req.data)
    /\ ~ReferencesUser(req.data, users)
    /\ WithinOneKm(req.data, towers)
    /\ resp.status = 404

\* Worker w commits its insert in this step.
C9_Inserts(w) == pending[w].busy /\ ~pending'[w].busy

C9_Step ==
    \A w \in Workers :
        C9_Inserts(w) =>
            /\ OneRowAdded(towers, towers')
            /\ \A i \in DOMAIN towers :
                  FLess(TowersKm(towers[i], Last(towers')), FOne)
                      => i > Len(pending[w].snapshot)

\* C9: under concurrent requests two stored towers can be less than 1.0 km
\* apart (the witness), and only by the race: a tower is inserted within
\* 1 km of another only if that other one was inserted after the inserting
\* request had read the table.
C9_OnlyByRace == [][C9_Step]_vars

\* Two towers at the same place are stored.
C9_Witness ==
    \E i, j \in DOMAIN towers :
        i # j /\ FLess(TowersKm(towers[i], towers[j]), FOne)

\* C10: every stored tower's user_id is the id of a stored user, so every
\* GET that embeds the owner of a tower finds it (no answer is 500).
C10_OwnersExist ==
    /\ \A i \in DOMAIN towers :
          \E k \in DOMAIN users : users[k].id = towers[i].user_id
    /\ get_towers(users, towers).status = 200
    /\ \A i \in DOMAIN towers :
          get_tower(towers[i].id, users, towers).status = 200
    /\ \A id \in 0..(MaxUsers + 1) \cup {999} :
          get_towers_by_user_id(id, users, towers).status = 200
    /\ resp.status # 500 \/ req.op = "POST /users"

\* GET /towers has just returned two towers with two different owners.
C10_Witness ==
    /\ req.op = "GET /towers"
    /\ resp.status = 200
    /\ Len(resp.body) = 2
    /\ resp.body[1].user.id # resp.body[2].user.id

=============================================================================
